---- MODULE Spec2Model ----
(***************************************************************************)
(* Model of the AI vision image analyzer: the Flask application (app.py)    *)
(* and the VisionAnalyzer library (vision_analyzer.py).                     *)
(*                                                                         *)
(* Representation of Python values:                                        *)
(*   - a file name or path is a sequence of characters (one-character       *)
(*     strings), so that rsplit, lower, suffix and secure_filename are      *)
(*     computed character by character;                                    *)
(*   - a message or answer text is a sequence of string chunks, so that     *)
(*     an f-string is the concatenation (\o) of its parts; the library's    *)
(*     messages keep their leading word "Error" as a chunk of its own;      *)
(*   - a prompt, a form value and an analysis-type tag are strings;         *)
(*   - Optional[str] and a form field that may be missing are <<>> (None,   *)
(*     missing) or <<s>>;                                                   *)
(*   - a dict is a record.                                                  *)
(***************************************************************************)
EXTENDS Integers, Sequences, FiniteSets, TLC

VARIABLES
    program,    \* which program runs: "app" (app.py) or "vision_analyzer"
    keys,       \* providers whose credential is configured
    libs,       \* providers whose client library can be imported
    template,   \* templates/index.html: "absent", "empty", "partial" (some
                \* of the page) or "written" (the whole page)
    fs,         \* the upload folder: path -> the file linked there (0: none)
    inodes,     \* the files of the upload folder, linked or held open:
                \* file -> its bytes, chunk by chunk
    req,        \* per worker: the local state of its current (or last)
                \* /analyze request
    lib,        \* the last VisionAnalyzer call and what it returned
    cmp         \* the call of VisionAnalyzer.compare_models and its result

vars == <<program, keys, libs, template, fs, inodes, req, lib, cmp>>

----------------------------------------------------------------------------
(* Bounds *)

\* number of worker threads of the web server (one request at a time each)
NumWorkers == 2

Workers == 1..NumWorkers

----------------------------------------------------------------------------
(* Characters and str methods *)

UpperChars == <<"A","B","C","D","E","F","G","H","I","J","K","L","M",
                "N","O","P","Q","R","S","T","U","V","W","X","Y","Z">>
LowerChars == <<"a","b","c","d","e","f","g","h","i","j","k","l","m",
                "n","o","p","q","r","s","t","u","v","w","x","y","z">>
DigitChars == <<"0","1","2","3","4","5","6","7","8","9">>

Range(s) == {s[i] : i \in DOMAIN s}

\* str.lower() on one character
LowerChar(c) ==
    IF \E i \in DOMAIN UpperChars : UpperChars[i] = c
    THEN LowerChars[CHOOSE i \in DOMAIN UpperChars : UpperChars[i] = c]
    ELSE c

\* str.lower()
Lower(s) == [i \in DOMAIN s |-> LowerChar(s[i])]

\* str.rfind('.') + 1: the position of the last dot, 0 when there is none
LastDot(s) ==
    IF \E i \in DOMAIN s : s[i] = "."
    THEN CHOOSE i \in DOMAIN s : s[i] = "." /\ \A j \in DOMAIN s : s[j] = "." => j <= i
    ELSE 0

\* str.find('.') + 1: the position of the first dot, 0 when there is none
FirstDot(s) ==
    IF \E i \in DOMAIN s : s[i] = "."
    THEN CHOOSE i \in DOMAIN s : s[i] = "." /\ \A j \in DOMAIN s : s[j] = "." => j >= i
    ELSE 0

\* filename.rsplit('.', 1)
RSplitDot(s) ==
    IF LastDot(s) = 0 THEN <<s>>
    ELSE <<SubSeq(s, 1, LastDot(s) - 1), SubSeq(s, LastDot(s) + 1, Len(s))>>

\* str.strip(chars)
RECURSIVE LStrip(_, _)
LStrip(s, chars) ==
    IF s # <<>> /\ Head(s) \in chars THEN LStrip(Tail(s), chars) ELSE s

RECURSIVE RStrip(_, _)
RStrip(s, chars) ==
    IF s # <<>> /\ s[Len(s)] \in chars THEN RStrip(SubSeq(s, 1, Len(s) - 1), chars) ELSE s

Strip(s, chars) == RStrip(LStrip(s, chars), chars)

\* the ASCII characters str.split() and str.isspace() treat as whitespace:
\* blank, \t, \n, \r, \f, \v and the separators \x1c to \x1f (the last
\* five written as code points)
Whitespace ==
    {" ", "\t", "\n", "\r", "\f", "U+000B", "U+001C", "U+001D", "U+001E", "U+001F"}

\* "_".join(s.split()): whitespace runs become one "_", none at the ends
RECURSIVE JoinRuns(_)
JoinRuns(s) ==
    IF s = <<>> THEN <<>>
    ELSE IF Head(s) \in Whitespace
         THEN <<"_">> \o JoinRuns(LStrip(s, Whitespace))
         ELSE <<Head(s)>> \o JoinRuns(Tail(s))

JoinSplit(s) == JoinRuns(Strip(s, Whitespace))

----------------------------------------------------------------------------
(* File names used as inputs *)

\* characters outside ASCII, written as code points: a CJK character (no
\* NFKD decomposition), e with acute accent, the combining acute accent,
\* the no-break space and the fullwidth letter x
CJK == "U+65E5"
EAcute == "U+00E9"
CombiningAcute == "U+0301"
Nbsp == "U+00A0"
FullwidthX == "U+FF58"

NonAscii == {CJK, EAcute, CombiningAcute, Nbsp, FullwidthX}

\* unicodedata.normalize("NFKD", c) for one character
NfkdChar(c) ==
    CASE c = EAcute -> <<"e", CombiningAcute>>
      [] c = Nbsp -> <<" ">>
      [] c = FullwidthX -> <<"x">>
      [] OTHER -> <<c>>

\* unicodedata.normalize("NFKD", s)
RECURSIVE Nfkd(_)
Nfkd(s) == IF s = <<>> THEN <<>> ELSE NfkdChar(Head(s)) \o Nfkd(Tail(s))

NameEmpty    == <<>>
NameCatPng   == <<"c","a","t",".","p","n","g">>
NameCatPNG   == <<"c","a","t",".","P","N","G">>
NameCatXyz   == <<"c","a","t",".","x","y","z">>
NameCat      == <<"c","a","t">>
NameCatDot   == <<"c","a","t",".">>
NamePngExe   == <<"a",".","p","n","g",".","e","x","e">>
NameABJpg    == <<"a",".","b",".","j","p","g">>
NameDotPng   == <<".","p","n","g">>
NameCjkPng   == <<CJK,".","p","n","g">>
NameJpeg     == <<"x",".","j","p","e","g">>
NameGif      == <<"x",".","g","i","f">>
NameWebp     == <<"x",".","w","e","b","p">>
NameMyCat    == <<"m","y"," ","c","a","t",".","p","n","g">>
NameUpCat    == <<".",".","/","c","a","t",".","p","n","g">>
NameEPng     == <<EAcute,".","p","n","g">>
NameNbspPng  == <<"a",Nbsp,"b",".","p","n","g">>
NameTabPng   == <<"a","\t","b",".","p","n","g">>
NameDirCat   == <<"m","y",".","d","/","c","a","t">>
NameMissing  == <<"n","o",".","p","n","g">>

\* the names a client may give its upload
Filenames ==
    {NameEmpty, NameCatPng, NameCatPNG, NameCatXyz, NameCat, NameCatDot,
     NamePngExe, NameABJpg, NameDotPng, NameCjkPng, NameJpeg, NameGif,
     NameWebp, NameMyCat, NameUpCat, NameTabPng, NameEPng, NameNbspPng}

\* the names used by concurrent requests: two that are saved under one path
ConcFilenames == {NameCatPng, NameUpCat}

----------------------------------------------------------------------------
(* app.py: configuration and helpers *)

\* app.config['ALLOWED_EXTENSIONS']
ALLOWED_EXTENSIONS ==
    {<<"p","n","g">>, <<"j","p","g">>, <<"j","p","e","g">>,
     <<"g","i","f">>, <<"w","e","b","p">>}

\* app.config['UPLOAD_FOLDER'] + '/'
UPLOAD_FOLDER == <<"u","p","l","o","a","d","s","/">>

\* a bug: filename.split('.')[1], the text between the first two dots
allowed_file_split(filename) ==
    /\ "." \in Range(filename)
    /\ LET rest == SubSeq(filename, FirstDot(filename) + 1, Len(filename))
           part == IF FirstDot(rest) = 0 THEN rest
                   ELSE SubSeq(rest, 1, FirstDot(rest) - 1)
       IN  Lower(part) \in ALLOWED_EXTENSIONS

allowed_file(filename) ==
    /\ "." \in Range(filename)
    /\ Lower(RSplitDot(filename)[2]) \in ALLOWED_EXTENSIONS

\* werkzeug.utils.secure_filename, as called on the upload's name
SafeChar(c) ==
    c \in Range(UpperChars) \cup Range(LowerChars) \cup Range(DigitChars) \cup {"_", ".", "-"}
IsAscii(c) == c \notin NonAscii
SepToSpace(s) == [i \in DOMAIN s |-> IF s[i] = "/" THEN " " ELSE s[i]]

secure_filename(filename) ==
    Strip(SelectSeq(JoinSplit(SepToSpace(SelectSeq(Nfkd(filename), IsAscii))),
                    SafeChar),
          {".", "_"})

\* pathlib: Path(p).suffix of the final component
Suffix(name) ==
    IF LastDot(name) > 1 /\ LastDot(name) < Len(name)
    THEN SubSeq(name, LastDot(name), Len(name))
    ELSE <<>>

\* p.split('/')
RECURSIVE SplitSlash(_)
SplitSlash(p) ==
    IF "/" \notin Range(p) THEN <<p>>
    ELSE LET i == CHOOSE i \in DOMAIN p :
                      p[i] = "/" /\ \A j \in DOMAIN p : p[j] = "/" => i <= j
         IN  <<SubSeq(p, 1, i - 1)>> \o SplitSlash(SubSeq(p, i + 1, Len(p)))

\* a path component pathlib keeps: not empty and not '.'
KeptPart(c) == c # <<>> /\ c # <<".">>

\* pathlib: Path(p).name, the last component once empty and '.' components
\* are dropped ('' when none is left)
Basename(p) ==
    LET parts == SelectSeq(SplitSlash(p), KeptPart)
    IN  IF parts = <<>> THEN <<>> ELSE parts[Len(parts)]

MEDIA_TYPES ==
    { <<<<".","j","p","g">>, "image/jpeg">>,
      <<<<".","j","p","e","g">>, "image/jpeg">>,
      <<<<".","p","n","g">>, "image/png">>,
      <<<<".","g","i","f">>, "image/gif">>,
      <<<<".","w","e","b","p">>, "image/webp">> }

\* a bug: the suffix is looked up without .lower()
get_media_type_no_lower(image_path) ==
    LET ext == Suffix(Basename(image_path))
    IN  IF \E e \in MEDIA_TYPES : e[1] = ext
        THEN (CHOOSE e \in MEDIA_TYPES : e[1] = ext)[2]
        ELSE "image/jpeg"

\* media_types.get(Path(image_path).suffix.lower(), 'image/jpeg')
get_media_type(image_path) ==
    LET ext == Lower(Suffix(Basename(image_path)))
    IN  IF \E e \in MEDIA_TYPES : e[1] = ext
        THEN (CHOOSE e \in MEDIA_TYPES : e[1] = ext)[2]
        ELSE "image/jpeg"

----------------------------------------------------------------------------
(* Values shared by both programs *)

Providers == {"gpt4o", "claude", "gemini"}

BuiltinTags == {"detailed", "story", "technical", "creative"}

\* dict.get(key, default)
DictGet(d, key, default) == IF key \in DOMAIN d THEN d[key] ELSE default

\* request.form.get(name, default) on a field that may be missing
FormGet(field, default) == IF field = <<>> THEN default ELSE field[1]

\* the number of chunks file.save copies an upload in (16384 bytes each)
UploadChunks == 2

\* the bytes of an image, chunk by chunk, each chunk named after the request
\* that uploaded the image (0: an image that is on disk already)
Bytes(w) == [k \in 1..UploadChunks |-> w]

\* the zero bytes that fill a file written past its end
Gap == -1

\* file contents: no file, or a file holding `chunks`
NoFile == [exists |-> FALSE, chunks |-> <<>>]
FileWith(chunks) == [exists |-> TRUE, chunks |-> chunks]

\* base64.b64encode(bytes).decode('utf-8')
b64encode(content) == [base64 |-> content]

\* what a function call ends in: a returned value or a raised exception,
\* with the network calls it made
Exc(type, msg) == [type |-> type, msg |-> msg]
Return(v, calls) == [raised |-> FALSE, value |-> v, calls |-> calls]
Raise(e, calls) == [raised |-> TRUE, value |-> e, calls |-> calls]

\* what the remote API does with a request: answers, raises, or answers
\* with an empty choices / content list
RemoteOutcomes ==
    { [kind |-> "ok", text |-> <<"A tale of a cat.">>],
      [kind |-> "ok", text |-> <<"Error", " with GPT-4o: ", "Error code: 500">>],
      [kind |-> "error", text |-> <<"Error code: 500">>],
      [kind |-> "malformed", text |-> <<>>] }

NoRemote == [kind |-> "none", text |-> <<>>]

\* the exception a failing remote call raises inside the provider function
RemoteExc(remote) ==
    IF remote.kind = "error" THEN Exc("APIError", remote.text)
    ELSE Exc("IndexError", <<"list index out of range">>)

\* open(image_path, "rb").read(), `files` mapping each path to its content
ReadFile(files, image_path) ==
    IF image_path \in DOMAIN files /\ files[image_path] # NoFile
    THEN Return(files[image_path], <<>>)
    ELSE Raise(Exc("FileNotFoundError",
                   <<"[Errno 2] No such file or directory: '">>
                       \o image_path \o <<"'">>), <<>>)

----------------------------------------------------------------------------
(* app.py: prompt table and provider functions *)

\* src/app.py lines 144-171
WEB_PROMPTS ==
    [ detailed |->
        "Analyze this image in comprehensive detail:\n1. Main subjects, objects, and people\n2. Scene setting and environment\n3. Colors, lighting, and composition\n4. Mood and atmosphere\n5. Any visible text\n6. Notable details\n7. Context and purpose",
      story |->
        "Create a rich, engaging story based on this image. \nInclude vivid descriptions, character backgrounds, emotions, and what might happen next.",
      technical |->
        "Provide expert technical analysis:\n- Composition techniques\n- Lighting quality and setup\n- Color grading and palette\n- Depth of field\n- Camera settings estimation\n- Professional photography principles",
      creative |->
        "Deep creative analysis:\n- Artistic style and influences\n- Symbolism and metaphors\n- Emotional impact\n- Cultural context\n- Potential interpretations" ]

\* a bug: an unknown tag falls back to the story template
web_resolve_prompt_story(analysis_type) ==
    DictGet(WEB_PROMPTS, analysis_type, WEB_PROMPTS["story"])

\* prompts.get(analysis_type, prompts["detailed"])
web_resolve_prompt(analysis_type) ==
    DictGet(WEB_PROMPTS, analysis_type, WEB_PROMPTS["detailed"])

\* analyze_with_gpt4o: its inline media_types table and lookup
WEB_GPT4O_MEDIA_TYPES ==
    { <<<<".","j","p","g">>, "image/jpeg">>,
      <<<<".","j","p","e","g">>, "image/jpeg">>,
      <<<<".","p","n","g">>, "image/png">>,
      <<<<".","g","i","f">>, "image/gif">>,
      <<<<".","w","e","b","p">>, "image/webp">> }

web_gpt4o_media_type(image_path) ==
    LET ext == Lower(Suffix(Basename(image_path)))
    IN  IF \E e \in WEB_GPT4O_MEDIA_TYPES : e[1] = ext
        THEN (CHOOSE e \in WEB_GPT4O_MEDIA_TYPES : e[1] = ext)[2]
        ELSE "image/jpeg"

\* analyze_with_claude: its inline media_types table and lookup
WEB_CLAUDE_MEDIA_TYPES ==
    { <<<<".","j","p","g">>, "image/jpeg">>,
      <<<<".","j","p","e","g">>, "image/jpeg">>,
      <<<<".","p","n","g">>, "image/png">>,
      <<<<".","g","i","f">>, "image/gif">>,
      <<<<".","w","e","b","p">>, "image/webp">> }

web_claude_media_type(image_path) ==
    LET ext == Lower(Suffix(Basename(image_path)))
    IN  IF \E e \in WEB_CLAUDE_MEDIA_TYPES : e[1] = ext
        THEN (CHOOSE e \in WEB_CLAUDE_MEDIA_TYPES : e[1] = ext)[2]
        ELSE "image/jpeg"

\* encode_image(image_path)
encode_image(files, image_path) ==
    LET f == ReadFile(files, image_path)
    IN  IF f.raised THEN f ELSE Return(b64encode(f.value), <<>>)

\* the body of the try block of analyze_with_gpt4o
web_gpt4o_try(image_path, prompt, files, remote) ==
    IF "gpt4o" \notin libs
    THEN Raise(Exc("ModuleNotFoundError", <<"No module named 'openai'">>), <<>>)
    ELSE IF "gpt4o" \notin keys
    THEN Return([error |-> <<"OpenAI API key not set">>], <<>>)
    ELSE LET img == encode_image(files, image_path)
             call == [model |-> "gpt-4o", prompt |-> prompt,
                      media_type |-> web_gpt4o_media_type(image_path), data |-> img.value]
         IN  IF img.raised THEN img
             ELSE IF remote.kind = "ok"
             THEN Return([success |-> TRUE, analysis |-> remote.text], <<call>>)
             ELSE Raise(RemoteExc(remote), <<call>>)

\* a bug: only ImportError is caught
web_analyze_with_gpt4o_import_only(image_path, prompt, files, remote) ==
    LET out == web_gpt4o_try(image_path, prompt, files, remote)
    IN  IF out.raised /\ out.value.type = "ModuleNotFoundError"
        THEN Return([error |-> out.value.msg], out.calls)
        ELSE out

\* a bug: the request is sent a second time after the first answer
web_analyze_with_gpt4o_twice(image_path, prompt, files, remote) ==
    LET out == web_gpt4o_try(image_path, prompt, files, remote)
    IN  IF out.raised THEN Return([error |-> out.value.msg], out.calls)
        ELSE Return(out.value, out.calls \o out.calls)

\* analyze_with_gpt4o(image_path, prompt): except Exception -> {"error": str(e)}
web_analyze_with_gpt4o(image_path, prompt, files, remote) ==
    LET out == web_gpt4o_try(image_path, prompt, files, remote)
    IN  IF out.raised THEN Return([error |-> out.value.msg], out.calls) ELSE out

\* the body of the try block of analyze_with_claude
web_claude_try(image_path, prompt, files, remote) ==
    IF "claude" \notin libs
    THEN Raise(Exc("ModuleNotFoundError", <<"No module named 'anthropic'">>), <<>>)
    ELSE IF "claude" \notin keys
    THEN Return([error |-> <<"Anthropic API key not set">>], <<>>)
    ELSE LET img == encode_image(files, image_path)
             call == [model |-> "claude-sonnet-4-5-20250929", prompt |-> prompt,
                      media_type |-> web_claude_media_type(image_path), data |-> img.value]
         IN  IF img.raised THEN img
             ELSE IF remote.kind = "ok"
             THEN Return([success |-> TRUE, analysis |-> remote.text], <<call>>)
             ELSE Raise(RemoteExc(remote), <<call>>)

\* a bug: the credential is checked after the request was sent
web_analyze_with_claude_late_key(image_path, prompt, files, remote) ==
    LET img == encode_image(files, image_path)
        call == [model |-> "claude-sonnet-4-5-20250929", prompt |-> prompt,
                 media_type |-> web_claude_media_type(image_path), data |-> img.value]
    IN  IF "claude" \notin libs
        THEN Return([error |-> <<"No module named 'anthropic'">>], <<>>)
        ELSE IF img.raised THEN Return([error |-> img.value.msg], <<>>)
        ELSE IF "claude" \notin keys
        THEN Return([error |-> <<"Anthropic API key not set">>], <<call>>)
        ELSE IF remote.kind = "ok"
        THEN Return([success |-> TRUE, analysis |-> remote.text], <<call>>)
        ELSE Return([error |-> RemoteExc(remote).msg], <<call>>)

\* analyze_with_claude(image_path, prompt): except Exception -> {"error": str(e)}
web_analyze_with_claude(image_path, prompt, files, remote) ==
    LET out == web_claude_try(image_path, prompt, files, remote)
    IN  IF out.raised THEN Return([error |-> out.value.msg], out.calls) ELSE out

\* a bug: an unknown selector is served by the default provider
web_dispatch_default(model, filepath, prompt, files, remote) ==
    IF model = "claude"
    THEN [invoked |-> "claude", out |-> web_analyze_with_claude(filepath, prompt, files, remote)]
    ELSE [invoked |-> "gpt4o", out |-> web_analyze_with_gpt4o(filepath, prompt, files, remote)]

\* analyze(): the if / elif / else on the selected model
web_dispatch(model, filepath, prompt, files, remote) ==
    IF model = "gpt4o"
    THEN [invoked |-> "gpt4o", out |-> web_analyze_with_gpt4o(filepath, prompt, files, remote)]
    ELSE IF model = "claude"
    THEN [invoked |-> "claude", out |-> web_analyze_with_claude(filepath, prompt, files, remote)]
    ELSE [invoked |-> "none", out |-> Return([error |-> <<"Invalid model selected">>], <<>>)]

\* a bug: a result carrying an error is answered with status 500
jsonify_result_500(result) ==
    [status |-> IF "error" \in DOMAIN result THEN 500 ELSE 200, body |-> result]

\* return jsonify(result): the default status
jsonify_result(result) == [status |-> 200, body |-> result]

\* return jsonify({"error": message}), 400
reject(message) == [status |-> 400, body |-> [error |-> <<message>>]]

----------------------------------------------------------------------------
(* app.py: the /analyze handler, one worker thread per request *)

\* os.path.join(app.config['UPLOAD_FOLDER'], filename)
upload_path(filename) == UPLOAD_FOLDER \o filename

\* the paths of the upload folder
UploadPaths == {upload_path(secure_filename(f)) : f \in Filenames}

NoBody == [pending |-> TRUE]

IdleReq ==
    [pc |-> "idle", route |-> "", tooLarge |-> FALSE, hasImage |-> FALSE,
     rawname |-> <<>>, filepath |-> <<>>, model |-> "", atype |-> "",
     prompt |-> "", handle |-> 0, offset |-> 0, image |-> <<>>,
     remote |-> NoRemote, invoked |-> "none", dispatched |-> FALSE,
     calls |-> <<>>, wrote |-> FALSE, raised |-> FALSE, status |-> 0,
     body |-> NoBody]

\* the routes of the application: GET / and POST /analyze
Routes == {"index", "analyze"}

\* the form values a client may send (a field may be missing)
ModelFields == {<<>>, <<"gpt4o">>, <<"claude">>, <<"gemini">>, <<"GPT4O">>}
TypeFields ==
    {<<>>, <<"detailed">>, <<"story">>, <<"technical">>, <<"creative">>, <<"poem">>}

\* what file.save(filepath) may do: write the file, fail before creating
\* it, or fail after creating it (an I/O error while copying, which leaves
\* in the file what was copied so far, possibly nothing)
SaveOutcomes == {"ok", "fail", "fail_partial"}

\* what os.remove(filepath) may do on an existing file: remove it or raise
\* (PermissionError, file in use)
RemoveOutcomes == {"ok", "fail"}

\* the files the upload folder can hold at a time: one per path and one
\* more per request that holds a removed file open
Inodes == 1..(Cardinality(UploadPaths) + NumWorkers)

\* the upload folder as open() sees it: path -> content
Disk(dir, ino) ==
    [p \in DOMAIN dir |-> IF dir[p] = 0 THEN NoFile ELSE FileWith(ino[dir[p]])]

\* a file exists while a path links it or a request holds it open
InUse(i, dir, r) ==
    \/ \E p \in DOMAIN dir : dir[p] = i
    \/ \E v \in Workers : r[v].handle = i

\* the file a newly created path gets
FreeInode == CHOOSE i \in Inodes :
    /\ ~InUse(i, fs, req)
    /\ \A j \in Inodes : j < i => InUse(j, fs, req)

\* the files that remain once the folder is `dir` and the requests are `r`
Collect(dir, r, ino) ==
    [i \in Inodes |-> IF InUse(i, dir, r) THEN ino[i] ELSE <<>>]

\* write(chunk) at position k of a file: bytes there are replaced, and a
\* file that ends before k is filled with zeros up to it
Put(chunks, k, w) ==
    [j \in 1..(IF k > Len(chunks) THEN k ELSE Len(chunks)) |->
        IF j = k THEN w ELSE IF j <= Len(chunks) THEN chunks[j] ELSE Gap]

\* the request ends with a response
Respond(w, r, response) ==
    req' = [req EXCEPT ![w] =
                [r EXCEPT !.pc = "done", !.status = response.status,
                          !.body = response.body]]

\* the request ends with an exception leaving the view function
Abort(w, r) ==
    req' = [req EXCEPT ![w] =
                [r EXCEPT !.pc = "done", !.status = 500, !.raised = TRUE]]

\* Flask's answer to a body larger than app.config['MAX_CONTENT_LENGTH']:
\* reading request.files raises RequestEntityTooLarge
too_large == [status |-> 413, body |-> [html |-> <<"Request Entity Too Large">>]]

\* a request arrives on a thread that serves none, and create_template
\* (before_request) opens templates/index.html for writing, which creates
\* it or empties it
CreateTemplateOpen(w, routes) ==
    /\ program = "app"
    /\ req[w].pc \in {"idle", "done"}
    /\ \E route \in routes :
         req' = [req EXCEPT ![w] = [IdleReq EXCEPT !.pc = "template", !.route = route]]
    /\ template' = "empty"
    /\ UNCHANGED <<program, keys, libs, fs, inodes, lib, cmp>>

\* another request is between opening the template and closing it
OtherTemplateWriter(w) == \E v \in Workers \ {w} : req[v].pc = "template"

\* create_template writes HTML_TEMPLATE and closes the file: some of the
\* page reaches the file first, then the rest. Every request writes the same
\* page, so the file ends whole unless another request emptied it after this
\* one had written its beginning
CreateTemplateWrite(w) ==
    /\ req[w].pc = "template"
    /\ \/ /\ template = "empty"
          /\ template' = "partial"
          /\ req' = req
       \/ /\ template' \in IF OtherTemplateWriter(w) THEN {"written", "partial"}
                          ELSE {"written"}
          /\ req' = [req EXCEPT ![w].pc = "route"]
    /\ UNCHANGED <<program, keys, libs, fs, inodes, lib, cmp>>

\* GET /: index() renders templates/index.html as it is at that moment
Index(w) ==
    /\ req[w].pc = "route"
    /\ req[w].route = "index"
    /\ Respond(w, req[w], [status |-> 200, body |-> [html |-> <<template>>]])
    /\ UNCHANGED <<program, keys, libs, template, fs, inodes, lib, cmp>>

\* POST /analyze: the checks of analyze() up to secure_filename
Receive(w, names) ==
    /\ req[w].pc = "route"
    /\ req[w].route = "analyze"
    /\ \E tooLarge \in BOOLEAN, hasImage \in BOOLEAN, rawname \in names :
         LET r == IF tooLarge THEN [req[w] EXCEPT !.tooLarge = TRUE]
                  ELSE [req[w] EXCEPT !.hasImage = hasImage,
                                      !.rawname = IF hasImage THEN rawname ELSE <<>>]
         IN  /\ hasImage \/ rawname = <<>>
             /\ IF tooLarge
                THEN Respond(w, r, too_large)
                ELSE IF ~hasImage
                THEN Respond(w, r, reject("No image file provided"))
                ELSE IF rawname = <<>>
                THEN Respond(w, r, reject("No file selected"))
                ELSE IF ~allowed_file(rawname)
                THEN Respond(w, r, reject("Invalid file type"))
                ELSE req' = [req EXCEPT ![w] =
                                [r EXCEPT !.pc = "save",
                                          !.filepath = upload_path(secure_filename(rawname))]]
    /\ UNCHANGED <<program, keys, libs, template, fs, inodes, lib, cmp>>

\* file.save(filepath), first part: the destination is opened for writing,
\* which creates it, or empties the file that is at the path
SaveOpen(w, outcomes) ==
    /\ req[w].pc = "save"
    /\ \E o \in outcomes \cap {"ok", "fail"} :
         IF o = "ok"
         THEN LET path == req[w].filepath
                  i == IF fs[path] = 0 THEN FreeInode ELSE fs[path]
              IN  /\ fs' = [fs EXCEPT ![path] = i]
                  /\ inodes' = [inodes EXCEPT ![i] = <<>>]
                  /\ req' = [req EXCEPT ![w] =
                                [@ EXCEPT !.pc = "copy", !.wrote = TRUE,
                                          !.handle = i, !.offset = 0]]
         ELSE /\ UNCHANGED <<fs, inodes>>
              /\ Abort(w, req[w])
    /\ UNCHANGED <<program, keys, libs, template, lib, cmp>>

\* file.save(filepath), second part: the next chunk of the upload is written
\* into the open file at the position this request has reached, and after
\* the last chunk the file is closed. The file is the one the request
\* opened, whether or not the path still links it. A failure leaves what was
\* copied so far
SaveCopy(w, outcomes) ==
    /\ req[w].pc = "copy"
    /\ \E o \in outcomes \cap {"ok", "fail_partial"} :
         LET i == req[w].handle
             k == req[w].offset + 1
             last == k = UploadChunks
             r == IF o = "ok"
                  THEN [req EXCEPT ![w] =
                           [@ EXCEPT !.offset = k,
                                     !.handle = IF last THEN 0 ELSE i,
                                     !.pc = IF last THEN "dispatch" ELSE "copy"]]
                  ELSE [req EXCEPT ![w] =
                           [@ EXCEPT !.pc = "done", !.status = 500,
                                     !.raised = TRUE, !.handle = 0]]
             written == IF o = "ok"
                        THEN [inodes EXCEPT ![i] = Put(@, k, w)]
                        ELSE inodes
         IN  /\ req' = r
             /\ inodes' = Collect(fs, r, written)
    /\ UNCHANGED <<program, keys, libs, template, fs, lib, cmp>>

\* the provider function has returned `d` (or raised) for the request `r`
Returned(w, r, d, remote) ==
    LET r2 == [r EXCEPT !.dispatched = TRUE, !.invoked = d.invoked,
                        !.calls = d.out.calls,
                        !.remote = IF d.out.calls = <<>> THEN NoRemote ELSE remote]
    IN  IF d.out.raised
        THEN Abort(w, r2)
        ELSE req' = [req EXCEPT ![w] =
                        [r2 EXCEPT !.pc = "cleanup", !.body = d.out.value]]

\* the form values, the prompt, and the selected provider function up to
\* the open() of encode_image: the function returns here when it makes no
\* remote call (no library, no key, no file at the path), otherwise it has
\* opened the file that is at the path
DispatchRead(w, models, types) ==
    /\ req[w].pc = "dispatch"
    /\ \E m \in models, t \in types :
         LET model == FormGet(m, "gpt4o")
             analysis_type == FormGet(t, "detailed")
             filepath == req[w].filepath
             prompt == web_resolve_prompt(analysis_type)
             r == [req[w] EXCEPT !.model = model, !.atype = analysis_type,
                                 !.prompt = prompt]
             d == web_dispatch(model, filepath, prompt, Disk(fs, inodes),
                               [kind |-> "ok", text |-> <<>>])
         IN  IF d.out.calls = <<>>
             THEN Returned(w, r, d, NoRemote)
             ELSE req' = [req EXCEPT ![w] =
                             [r EXCEPT !.pc = "reading", !.handle = fs[filepath],
                                       !.offset = 0, !.image = <<>>]]
    /\ UNCHANGED <<program, keys, libs, template, fs, inodes, lib, cmp>>

\* image_file.read(): a read() of the open file returns bytes that follow
\* the position this request has reached, all of them or, when the file is
\* changed meanwhile, some of them
Read(w) ==
    /\ req[w].pc = "reading"
    /\ LET chunks == inodes[req[w].handle]
           from == req[w].offset
       IN  /\ Len(chunks) > from
           /\ \E to \in (from + 1)..Len(chunks) :
                req' = [req EXCEPT ![w] =
                           [@ EXCEPT !.image = @ \o SubSeq(chunks, from + 1, to),
                                     !.offset = to]]
    /\ UNCHANGED <<program, keys, libs, template, fs, inodes, lib, cmp>>

\* image_file.read() finds no byte after the position it has reached: the
\* file is closed and the request calls the remote API with what it read
ReadDone(w) ==
    /\ req[w].pc = "reading"
    /\ Len(inodes[req[w].handle]) <= req[w].offset
    /\ LET r == [req EXCEPT ![w] = [@ EXCEPT !.pc = "remote", !.handle = 0]]
       IN  /\ req' = r
           /\ inodes' = Collect(fs, r, inodes)
    /\ UNCHANGED <<program, keys, libs, template, fs, lib, cmp>>

\* the remote API answers or raises, and the provider function returns
RemoteAnswer(w, remotes) ==
    /\ req[w].pc = "remote"
    /\ \E remote \in remotes :
         LET filepath == req[w].filepath
             read == [p \in {filepath} |-> FileWith(req[w].image)]
         IN  Returned(w, req[w],
                      web_dispatch(req[w].model, filepath, req[w].prompt, read, remote),
                      remote)
    /\ UNCHANGED <<program, keys, libs, template, fs, inodes, lib, cmp>>

\* try: os.remove(filepath) except: pass; return jsonify(result). The path
\* no longer links the file; requests that hold it open keep it
Cleanup(w, outcomes) ==
    /\ req[w].pc = "cleanup"
    /\ \E o \in outcomes :
         LET response == jsonify_result(req[w].body)
             r == [req EXCEPT ![w] =
                      [@ EXCEPT !.pc = "done", !.status = response.status,
                                !.body = response.body]]
             dir == IF o = "ok" THEN [fs EXCEPT ![req[w].filepath] = 0] ELSE fs
         IN  /\ o = "ok" \/ fs[req[w].filepath] # 0
             /\ fs' = dir
             /\ inodes' = Collect(dir, r, inodes)
             /\ req' = r
    /\ UNCHANGED <<program, keys, libs, template, lib, cmp>>

----------------------------------------------------------------------------
(* vision_analyzer.py: VisionAnalyzer *)

\* src/vision_analyzer.py lines 64-101
GPT4O_PROMPTS ==
    [ detailed |->
        "Analyze this image in comprehensive detail:\n1. Main subjects, objects, and people\n2. Scene setting and environment\n3. Colors, lighting, shadows, and composition\n4. Mood, atmosphere, and emotions conveyed\n5. Any visible text or signs\n6. Quality, style, and artistic elements\n7. Context and possible purpose\n8. Notable or unique details",
      story |->
        "Create a rich, engaging story based on this image:\n- Describe what's happening right now\n- Imagine the backstory and context\n- Develop the characters or subjects\n- Explore emotions and relationships\n- Predict what might happen next\n- Make it vivid and compelling!",
      technical |->
        "Provide expert technical analysis:\n- Composition techniques (rule of thirds, leading lines, etc.)\n- Lighting setup and quality (natural/artificial, direction, softness)\n- Color grading and palette\n- Depth of field and focus points\n- Camera settings estimation (aperture, shutter, ISO if applicable)\n- Post-processing techniques visible\n- Image quality and resolution\n- Professional photography principles applied",
      creative |->
        "Deep creative analysis:\n- Artistic style and influences\n- Symbolism and metaphors\n- Cultural or historical context\n- Emotional and psychological impact\n- Narrative and storytelling elements\n- Potential interpretations\n- How it relates to art movements or genres" ]

\* src/vision_analyzer.py lines 158-163
CLAUDE_PROMPTS ==
    [ detailed |->
        "Analyze this image in extreme detail. Describe everything you see, the mood, composition, colors, lighting, subjects, context, and any interesting details.",
      story |->
        "Look at this image and write a captivating story about it. Include vivid descriptions, character backgrounds, emotions, and what might happen next.",
      technical |->
        "Provide a professional technical analysis of this image covering composition, lighting, color theory, photography techniques, and quality assessment.",
      creative |->
        "Analyze this image creatively. Discuss artistic style, symbolism, emotional impact, cultural context, and deeper meanings." ]

\* src/vision_analyzer.py lines 227-232
GEMINI_PROMPTS ==
    [ detailed |->
        "Analyze this image thoroughly and describe everything you observe.",
      story |->
        "Create an engaging story based on this image.",
      technical |->
        "Provide technical analysis of this image's composition and quality.",
      creative |->
        "Analyze this image from an artistic and creative perspective." ]

\* the files on disk when the library is used, by path
LibDisk ==
    [p \in {NameCatPng, NameCatPNG, NameCat, NameCatXyz, NameABJpg, NameJpeg,
            NameGif, NameWebp, NameDotPng, NameDirCat} |-> FileWith(Bytes(0))]

\* the image paths, custom prompts and analysis types a caller passes
LibPaths == DOMAIN LibDisk \cup {NameMissing}
CustomPrompts == {<<>>, <<"">>, <<"What breed is this cat?">>, <<"story">>}
AnalysisTypes == {"detailed", "story", "technical", "creative", "poem", "Detailed"}

\* Python's `a or b` on an Optional[str] a
PyOr(a, b) == IF a # <<>> /\ a[1] # "" THEN a[1] ELSE b

\* a bug: a known analysis type wins over the custom prompt
resolve_prompt_table_first(prompts, custom_prompt, analysis_type) ==
    IF analysis_type \in DOMAIN prompts THEN prompts[analysis_type]
    ELSE PyOr(custom_prompt, prompts["detailed"])

\* prompt = custom_prompt or prompts.get(analysis_type, prompts["detailed"])
resolve_prompt(prompts, custom_prompt, analysis_type) ==
    PyOr(custom_prompt, DictGet(prompts, analysis_type, prompts["detailed"]))

\* what a VisionAnalyzer method ends in, with the prompt it resolved
\* (<<>> when it returned before resolving one)
WithPrompt(out, prompt) ==
    [raised |-> out.raised, value |-> out.value, calls |-> out.calls, prompt |-> prompt]

\* the second try block of analyze_with_gpt4o
lib_gpt4o_try(image_path, prompt, remote) ==
    LET img == encode_image(LibDisk, image_path)
        call == [model |-> "gpt-4o", prompt |-> prompt,
                 media_type |-> get_media_type(image_path), data |-> img.value]
    IN  IF img.raised THEN img
        ELSE IF remote.kind = "ok" THEN Return(remote.text, <<call>>)
        ELSE Raise(RemoteExc(remote), <<call>>)

\* VisionAnalyzer.analyze_with_gpt4o
analyze_with_gpt4o(image_path, custom_prompt, analysis_type, remote) ==
    IF "gpt4o" \notin libs
    THEN WithPrompt(Return(<<"Error", ": Please install openai package: pip install openai">>,
                           <<>>), <<>>)
    ELSE IF "gpt4o" \notin keys
    THEN WithPrompt(Return(<<"Error", ": OpenAI API key not found. Set OPENAI_API_KEY environment variable.">>,
                           <<>>), <<>>)
    ELSE LET prompt == resolve_prompt(GPT4O_PROMPTS, custom_prompt, analysis_type)
             out == lib_gpt4o_try(image_path, prompt, remote)
         IN  WithPrompt(IF out.raised
                        THEN Return(<<"Error", " with GPT-4o: ">> \o out.value.msg, out.calls)
                        ELSE out,
                        <<prompt>>)

\* the second try block of analyze_with_claude
lib_claude_try(image_path, prompt, remote) ==
    LET img == encode_image(LibDisk, image_path)
        call == [model |-> "claude-sonnet-4-5-20250929", prompt |-> prompt,
                 media_type |-> get_media_type(image_path), data |-> img.value]
    IN  IF img.raised THEN img
        ELSE IF remote.kind = "ok" THEN Return(remote.text, <<call>>)
        ELSE Raise(RemoteExc(remote), <<call>>)

\* VisionAnalyzer.analyze_with_claude
analyze_with_claude(image_path, custom_prompt, analysis_type, remote) ==
    IF "claude" \notin libs
    THEN WithPrompt(Return(<<"Error", ": Please install anthropic package: pip install anthropic">>,
                           <<>>), <<>>)
    ELSE IF "claude" \notin keys
    THEN WithPrompt(Return(<<"Error", ": Anthropic API key not found. Set ANTHROPIC_API_KEY environment variable.">>,
                           <<>>), <<>>)
    ELSE LET prompt == resolve_prompt(CLAUDE_PROMPTS, custom_prompt, analysis_type)
             out == lib_claude_try(image_path, prompt, remote)
         IN  WithPrompt(IF out.raised
                        THEN Return(<<"Error", " with Claude: ">> \o out.value.msg, out.calls)
                        ELSE out,
                        <<prompt>>)

\* the second try block of analyze_with_gemini: Image.open, generate_content
lib_gemini_try(image_path, prompt, remote) ==
    LET img == ReadFile(LibDisk, image_path)
        call == [model |-> "gemini-1.5-flash", prompt |-> prompt,
                 media_type |-> "PIL.Image", data |-> [image |-> img.value]]
    IN  IF img.raised THEN img
        ELSE IF remote.kind = "ok" THEN Return(remote.text, <<call>>)
        ELSE Raise(RemoteExc(remote), <<call>>)

\* VisionAnalyzer.analyze_with_gemini
analyze_with_gemini(image_path, custom_prompt, analysis_type, remote) ==
    IF "gemini" \notin libs
    THEN WithPrompt(Return(<<"Error", ": Please install: pip install google-generativeai pillow">>,
                           <<>>), <<>>)
    ELSE IF "gemini" \notin keys
    THEN WithPrompt(Return(<<"Error", ": Google API key not found. Set GOOGLE_API_KEY environment variable.">>,
                           <<>>), <<>>)
    ELSE LET prompt == resolve_prompt(GEMINI_PROMPTS, custom_prompt, analysis_type)
             out == lib_gemini_try(image_path, prompt, remote)
         IN  WithPrompt(IF out.raised
                        THEN Return(<<"Error", " with Gemini: ">> \o out.value.msg, out.calls)
                        ELSE out,
                        <<prompt>>)

NoCall ==
    [provider |-> "none", image_path |-> <<>>, custom_prompt |-> <<>>,
     analysis_type |-> "", remote |-> NoRemote,
     out |-> WithPrompt(Return(<<>>, <<>>), <<>>)]

\* one call of a VisionAnalyzer method, recorded with what it ended in; the
\* analyzer keeps nothing from one call to the next, so a behaviour holds one
Called(provider, image_path, custom_prompt, analysis_type, remote, out) ==
    /\ lib.provider = "none"
    /\ ~cmp.called
    /\ lib' = [provider |-> provider, image_path |-> image_path,
               custom_prompt |-> custom_prompt, analysis_type |-> analysis_type,
               remote |-> IF out.calls = <<>> THEN NoRemote ELSE remote, out |-> out]

AnalyzeWithGpt4o ==
    /\ program = "vision_analyzer"
    /\ \E p \in LibPaths, c \in CustomPrompts, t \in AnalysisTypes, r \in RemoteOutcomes :
         Called("gpt4o", p, c, t, r, analyze_with_gpt4o(p, c, t, r))
    /\ UNCHANGED <<program, keys, libs, template, fs, inodes, req, cmp>>

AnalyzeWithClaude ==
    /\ program = "vision_analyzer"
    /\ \E p \in LibPaths, c \in CustomPrompts, t \in AnalysisTypes, r \in RemoteOutcomes :
         Called("claude", p, c, t, r, analyze_with_claude(p, c, t, r))
    /\ UNCHANGED <<program, keys, libs, template, fs, inodes, req, cmp>>

AnalyzeWithGemini ==
    /\ program = "vision_analyzer"
    /\ \E p \in LibPaths, c \in CustomPrompts, t \in AnalysisTypes, r \in RemoteOutcomes :
         Called("gemini", p, c, t, r, analyze_with_gemini(p, c, t, r))
    /\ UNCHANGED <<program, keys, libs, template, fs, inodes, req, cmp>>

\* the inputs of compare_models
ComparePaths == {NameCatPng, NameMissing}
CompareTypes == {"story", "Detailed"}
CompareRemotes ==
    [Providers -> {r \in RemoteOutcomes :
                      r.text \in {<<"A tale of a cat.">>, <<"Error code: 500">>}}]

\* results = {}, no method invoked yet
NoResults == [results |-> <<>>, trace |-> <<>>]

\* one `if self.<key>: results[name] = self.analyze_with_<name>(image_path,
\* analysis_type=analysis_type)` of compare_models; `trace` lists the
\* invocations in the order they are made, `results` is the dictionary
CompareStep(acc, provider, image_path, analysis_type, out) ==
    IF provider \in keys
    THEN [results |-> acc.results @@ (provider :> out.value),
          trace |-> Append(acc.trace,
                           [provider |-> provider, image_path |-> image_path,
                            custom_prompt |-> <<>>, analysis_type |-> analysis_type,
                            calls |-> out.calls])]
    ELSE acc

\* a bug: the comparison stops at the first provider that fails
compare_models_stop_at_failure(image_path, analysis_type, remotes) ==
    LET g == CompareStep(NoResults, "gpt4o", image_path, analysis_type,
                 analyze_with_gpt4o(image_path, <<>>, analysis_type, remotes["gpt4o"]))
        c == CompareStep(g, "claude", image_path, analysis_type,
                 analyze_with_claude(image_path, <<>>, analysis_type, remotes["claude"]))
        m == CompareStep(c, "gemini", image_path, analysis_type,
                 analyze_with_gemini(image_path, <<>>, analysis_type, remotes["gemini"]))
        failed(acc) == \E p \in DOMAIN acc.results :
                          Len(acc.results[p]) >= 2 /\ Head(acc.results[p]) = "Error"
    IN  IF failed(g) THEN g ELSE IF failed(c) THEN c ELSE m

\* VisionAnalyzer.compare_models(image_path, analysis_type)
compare_models(image_path, analysis_type, remotes) ==
    LET g == CompareStep(NoResults, "gpt4o", image_path, analysis_type,
                 analyze_with_gpt4o(image_path, <<>>, analysis_type, remotes["gpt4o"]))
        c == CompareStep(g, "claude", image_path, analysis_type,
                 analyze_with_claude(image_path, <<>>, analysis_type, remotes["claude"]))
        m == CompareStep(c, "gemini", image_path, analysis_type,
                 analyze_with_gemini(image_path, <<>>, analysis_type, remotes["gemini"]))
    IN  m

NoCompare ==
    [called |-> FALSE, image_path |-> <<>>, analysis_type |-> "",
     remotes |-> [p \in Providers |-> NoRemote],
     results |-> <<>>, trace |-> <<>>]

\* one call of compare_models on a fresh analyzer, recorded with the
\* dictionary it returned and the invocations it made; a remote outcome is
\* recorded for the providers whose remote call was made
CompareModels ==
    /\ program = "vision_analyzer"
    /\ lib.provider = "none"
    /\ ~cmp.called
    /\ \E p \in ComparePaths, t \in CompareTypes, rs \in CompareRemotes :
         LET out == compare_models(p, t, rs)
             made == {out.trace[i].provider :
                         i \in {j \in DOMAIN out.trace : out.trace[j].calls # <<>>}}
         IN  cmp' = [called |-> TRUE, image_path |-> p, analysis_type |-> t,
                     remotes |-> [q \in Providers |->
                                     IF q \in made THEN rs[q] ELSE NoRemote],
                     results |-> out.results, trace |-> out.trace]
    /\ UNCHANGED <<program, keys, libs, template, fs, inodes, req, lib>>

----------------------------------------------------------------------------
(* Specifications *)

\* the providers app.py knows
WebProviders == {"gpt4o", "claude"}

Init ==
    /\ program \in {"app", "vision_analyzer"}
    /\ keys \in SUBSET Providers
    /\ libs \in SUBSET Providers
    /\ program = "app" => keys \cup libs \subseteq WebProviders
    /\ template = "absent"
    /\ fs = [p \in UploadPaths |-> 0]
    /\ inodes = [i \in Inodes |-> <<>>]
    /\ req = [w \in Workers |-> IdleReq]
    /\ lib = NoCall
    /\ cmp = NoCompare

\* requests arrive one at a time, each after the previous one was answered,
\* and one thread serves them all
SeqArrive(w, routes) ==
    /\ \A v \in Workers \ {w} : req[v].pc = "idle"
    /\ CreateTemplateOpen(w, routes)

\* the outcomes of file.save and os.remove when no I/O operation fails
NoFailure == {"ok"}

\* one request at a time with every name and form value and no I/O failure,
\* or calls of the library
Next ==
    \/ \E w \in Workers :
         \/ SeqArrive(w, Routes)
         \/ CreateTemplateWrite(w)
         \/ Index(w)
         \/ Receive(w, Filenames)
         \/ SaveOpen(w, NoFailure)
         \/ SaveCopy(w, NoFailure)
         \/ DispatchRead(w, ModelFields, TypeFields)
         \/ Read(w)
         \/ ReadDone(w)
         \/ RemoteAnswer(w, RemoteOutcomes)
         \/ Cleanup(w, NoFailure)
    \/ AnalyzeWithGpt4o
    \/ AnalyzeWithClaude
    \/ AnalyzeWithGemini
    \/ CompareModels

Spec == Init /\ [][Next]_vars

\* concurrent requests, one per worker thread, with both providers usable
InitConc ==
    /\ Init
    /\ program = "app"
    /\ keys = WebProviders
    /\ libs = WebProviders

\* in the concurrent runs no I/O operation fails and the remote API answers
\* or raises
ConcRemotes == {r \in RemoteOutcomes : r.kind # "malformed"}

NextConc ==
    \/ \E w \in Workers :
        \/ CreateTemplateOpen(w, Routes)
        \/ CreateTemplateWrite(w)
        \/ Index(w)
        \/ Receive(w, ConcFilenames)
        \/ SaveOpen(w, NoFailure)
        \/ SaveCopy(w, NoFailure)
        \/ DispatchRead(w, {<<"gpt4o">>}, {<<>>})
        \/ Read(w)
        \/ ReadDone(w)
        \/ RemoteAnswer(w, ConcRemotes)
        \/ Cleanup(w, NoFailure)

SpecConc == InitConc /\ [][NextConc]_vars

\* the names used by the requests that meet I/O failures: saved under two
\* paths
FaultFilenames == {NameCatPng, NameDotPng}

\* one request at a time, with file.save and os.remove failing at will; what
\* a failure leaves in the upload folder is there for the next request
NextFaults ==
    \/ \E w \in Workers :
        \/ SeqArrive(w, Routes)
        \/ CreateTemplateWrite(w)
        \/ Index(w)
        \/ Receive(w, FaultFilenames)
        \/ SaveOpen(w, SaveOutcomes)
        \/ SaveCopy(w, SaveOutcomes)
        \/ DispatchRead(w, {<<"gpt4o">>}, {<<>>})
        \/ Read(w)
        \/ ReadDone(w)
        \/ RemoteAnswer(w, ConcRemotes)
        \/ Cleanup(w, RemoveOutcomes)

SpecFaults == InitConc /\ [][NextFaults]_vars

----------------------------------------------------------------------------
(* Properties *)

\* worker w's request got as far as selecting a provider (lines 140-181)
Dispatched(w) == req[w].pc # "idle" /\ req[w].dispatched

\* worker w's request called a provider function
Invoked(w) == Dispatched(w) /\ req[w].invoked # "none"

\* a VisionAnalyzer method was called and has ended
LibCalled == lib.provider # "none"

\* the web variant's Failure: a dict with an "error" message
WebFailure(body) == "error" \in DOMAIN body /\ body.error # <<>>

\* the library variant's Failure: a string "Error..." with a message
LibFailure(value) == Len(value) >= 2 /\ Head(value) = "Error"

\* a cause of failure was present in worker w's provider call: credential
\* or library absent, file unreadable, or the remote call raising
WebFailureCause(w) ==
    \/ req[w].invoked \notin keys
    \/ req[w].invoked \notin libs
    \/ req[w].remote.kind # "ok"

LibFailureCause ==
    \/ lib.provider \notin keys
    \/ lib.provider \notin libs
    \/ lib.remote.kind # "ok"

\* C1: every provider analyze operation returns a value and lets no
\* exception reach its caller, and whenever a failure cause was present
\* (credential absent, library absent, image unreadable, remote call
\* raising) the returned value is a Failure carrying a message.
C1_NoExceptionEscapes ==
    /\ \A w \in Workers :
         Invoked(w) =>
           /\ ~req[w].raised
           /\ req[w].body # NoBody
           /\ WebFailureCause(w) => WebFailure(req[w].body)
    /\ LibCalled =>
         /\ ~lib.out.raised
         /\ LibFailureCause => LibFailure(lib.out.value)

\* C1 witness: a remote call made by a library method raised, and the method
\* returned a Failure
C1_Witness ==
    /\ LibCalled
    /\ lib.out.calls # <<>>
    /\ lib.remote.kind = "error"
    /\ ~lib.out.raised
    /\ LibFailure(lib.out.value)

\* the message each function gives for its missing credential
WebCredentialMessage(p) ==
    IF p = "gpt4o" THEN <<"OpenAI API key not set">> ELSE <<"Anthropic API key not set">>

LibCredentialMessage(p) ==
    IF p = "gpt4o"
    THEN <<"Error", ": OpenAI API key not found. Set OPENAI_API_KEY environment variable.">>
    ELSE IF p = "claude"
    THEN <<"Error", ": Anthropic API key not found. Set ANTHROPIC_API_KEY environment variable.">>
    ELSE <<"Error", ": Google API key not found. Set GOOGLE_API_KEY environment variable.">>

\* C2 as stated: with the provider's credential not configured, analyze
\* yields a Failure whose message identifies the missing credential and makes
\* no network call, whatever the other credentials and the client libraries.
C2_AsStated ==
    /\ \A w \in Workers :
         (Invoked(w) /\ req[w].invoked \notin keys) =>
           /\ req[w].body = [error |-> WebCredentialMessage(req[w].invoked)]
           /\ req[w].calls = <<>>
    /\ (LibCalled /\ lib.provider \notin keys) =>
         /\ lib.out.value = LibCredentialMessage(lib.provider)
         /\ lib.out.calls = <<>>

\* C2 amended: with the provider's credential not configured, analyze yields
\* a Failure and makes no network call, whatever the other credentials and
\* the client libraries; the message identifies the missing credential when
\* the provider's client library can be imported (the import comes first, so
\* with the library absent the message is the import's).
C2_MissingCredential ==
    /\ \A w \in Workers :
         (Invoked(w) /\ req[w].invoked \notin keys) =>
           /\ ~req[w].raised
           /\ WebFailure(req[w].body)
           /\ req[w].calls = <<>>
           /\ req[w].invoked \in libs =>
                req[w].body = [error |-> WebCredentialMessage(req[w].invoked)]
           /\ req[w].invoked \notin libs =>
                req[w].body # [error |-> WebCredentialMessage(req[w].invoked)]
    /\ (LibCalled /\ lib.provider \notin keys) =>
         /\ ~lib.out.raised
         /\ LibFailure(lib.out.value)
         /\ lib.out.calls = <<>>
         /\ lib.provider \in libs => lib.out.value = LibCredentialMessage(lib.provider)
         /\ lib.provider \notin libs => lib.out.value # LibCredentialMessage(lib.provider)

\* C2 witness: a request for claude ended with the missing-credential
\* message while the other provider's credential was configured
C2_Witness ==
    \E w \in Workers :
        /\ req[w].pc = "done"
        /\ req[w].invoked = "claude"
        /\ "claude" \notin keys
        /\ "gpt4o" \in keys
        /\ req[w].calls = <<>>
        /\ req[w].body = [error |-> <<"Anthropic API key not set">>]

\* C3: a request that reaches the selection with a selector other than
\* 'gpt4o' and 'claude' gets the Failure "Invalid model selected"; no provider
\* function is invoked, no network call is made, no exception propagates.
C3_InvalidModel ==
    \A w \in Workers :
        (Dispatched(w) /\ req[w].model \notin WebProviders) =>
          /\ ~req[w].raised
          /\ req[w].invoked = "none"
          /\ req[w].calls = <<>>
          /\ req[w].body = [error |-> <<"Invalid model selected">>]

\* C3 witness: a finished request whose selector was 'gemini'
C3_Witness ==
    \E w \in Workers :
        /\ req[w].pc = "done"
        /\ Dispatched(w)
        /\ req[w].model = "gemini"
        /\ req[w].body = [error |-> <<"Invalid model selected">>]

\* C4 as stated: when a request that wrote an upload file has finished,
\* whatever its outcome (an error while saving included), the file it wrote
\* is no longer in the upload folder: its path links no file.
C4_UploadDeleted ==
    \A w \in Workers :
        (req[w].pc = "done" /\ req[w].wrote) => fs[req[w].filepath] = 0

\* what worker w's request would get and send were it alone in the server:
\* its own upload under its path, for some behaviour of the remote API
ResultAlone(w) ==
    { web_dispatch(req[w].model, req[w].filepath, req[w].prompt,
                   [Disk(fs, inodes) EXCEPT ![req[w].filepath] = FileWith(Bytes(w))],
                   remote).out :
        remote \in RemoteOutcomes }

\* C5 as stated: requests processed concurrently each produce the result
\* they would produce alone: the bytes a request sends are those of its own
\* upload, and no other request's save or delete turns its outcome into a
\* failure.
C5_Isolated ==
    \A w \in Workers :
        Dispatched(w) =>
          \E alone \in ResultAlone(w) :
              /\ req[w].body = alone.value
              /\ req[w].calls = alone.calls

\* the upload's name has an extension, the text after its last dot, that is
\* one of png, jpg, jpeg, gif, webp whatever its case
HasAllowedExtension(name) ==
    \E i \in DOMAIN name :
        /\ name[i] = "."
        /\ \A j \in DOMAIN name : j > i => name[j] # "."
        /\ Lower(SubSeq(name, i + 1, Len(name))) \in ALLOWED_EXTENSIONS

\* the request reached analyze() and its body was within the size limit,
\* so that analyze() read its parts
BodyRead(w) ==
    /\ req[w].route = "analyze"
    /\ req[w].pc \notin {"idle", "template", "route"}
    /\ ~req[w].tooLarge

\* the shape of the request analyze() read is wrong: no 'image' part, an
\* empty filename, or a disallowed extension
ShapeError(w) ==
    /\ BodyRead(w)
    /\ \/ ~req[w].hasImage
       \/ req[w].rawname = <<>>
       \/ ~HasAllowedExtension(req[w].rawname)

\* C6 as stated: each kind of invalid input (unsupported extension, empty
\* filename, invalid provider selector) is answered with a 400-class status.
C6_InvalidInput400 ==
    \A w \in Workers :
        ( /\ req[w].pc = "done"
          /\ \/ req[w].hasImage /\ ShapeError(w)
             \/ Dispatched(w) /\ req[w].model \notin WebProviders )
        => req[w].status \in 400..499

\* C7: a finished request has status 400 exactly when its shape is wrong
\* (shape as read by analyze(): a body over the size limit is answered 413
\* by the framework before any part is read);
\* every provider-side failure (missing credential, missing library, remote
\* error) is answered with status 200 and an 'error' field.
C7_StatusCodes ==
    \A w \in Workers :
        req[w].pc = "done" =>
          /\ ShapeError(w) <=> req[w].status = 400
          /\ (Invoked(w) /\ WebFailureCause(w)) =>
               /\ req[w].status = 200
               /\ WebFailure(req[w].body)

\* C7 witness: a request whose remote call raised got 200 with an error
C7_Witness ==
    \E w \in Workers :
        /\ req[w].pc = "done"
        /\ req[w].calls # <<>>
        /\ req[w].remote.kind = "error"
        /\ req[w].status = 200
        /\ req[w].body = [error |-> <<"Error code: 500">>]

\* the request was rejected with 400 and `message`, having written no file,
\* called no provider function and made no network call
RejectedUntouched(w, message) ==
    /\ req[w].pc = "done"
    /\ req[w].status = 400
    /\ req[w].body = [error |-> <<message>>]
    /\ ~req[w].wrote
    /\ \A p \in DOMAIN fs : fs[p] = 0
    /\ ~req[w].dispatched
    /\ req[w].invoked = "none"
    /\ req[w].calls = <<>>

\* C8: an upload whose name has no extension or one outside png, jpg, jpeg,
\* gif, webp (case-insensitive, after the last dot) is rejected with 400
\* "Invalid file type" before any effect; so are a request without 'image'
\* ("No image file provided") and one with an empty filename ("No file
\* selected"), which are checked first, in that order. (Requests whose
\* body analyze() read: a body over the size limit is answered 413 by the
\* framework before any part is read.)
C8_RejectedBeforeEffect ==
    \A w \in Workers :
        BodyRead(w) =>
          /\ ~req[w].hasImage => RejectedUntouched(w, "No image file provided")
          /\ (req[w].hasImage /\ req[w].rawname = <<>>) =>
               RejectedUntouched(w, "No file selected")
          /\ ( /\ req[w].hasImage
               /\ req[w].rawname # <<>>
               /\ ~HasAllowedExtension(req[w].rawname) ) =>
               RejectedUntouched(w, "Invalid file type")

\* C8 witness: an upload named a.png.exe was rejected
C8_Witness ==
    \E w \in Workers :
        /\ req[w].rawname = NamePngExe
        /\ RejectedUntouched(w, "Invalid file type")

\* the prompt table of each provider of the library
LibPrompts(provider) ==
    IF provider = "gpt4o" THEN GPT4O_PROMPTS
    ELSE IF provider = "claude" THEN CLAUDE_PROMPTS
    ELSE GEMINI_PROMPTS

\* the custom prompt is absent or empty
NoCustomPrompt(c) == c = <<>> \/ c = <<"">>

\* `prompt` is what the table must give for `tag`: a non-empty template,
\* different from the templates of the other built-in tags, and for a tag
\* that is not built in the template of 'detailed'
ResolvedFromTable(table, tag, prompt) ==
    /\ prompt # ""
    /\ \E t \in BuiltinTags : prompt = table[t]
    /\ tag \in BuiltinTags => \A t \in BuiltinTags \ {tag} : prompt # table[t]
    /\ tag \notin BuiltinTags => prompt = table["detailed"]

\* C9: without a custom prompt, in every prompt table (the web handler's and
\* each library provider's) the prompt resolved for a built-in tag is a
\* non-empty template distinct from the templates of the other three tags,
\* and the prompt resolved for any other tag is the 'detailed' template.
C9_PromptTables ==
    /\ \A w \in Workers :
         Dispatched(w) => ResolvedFromTable(WEB_PROMPTS, req[w].atype, req[w].prompt)
    /\ (LibCalled /\ lib.out.prompt # <<>> /\ NoCustomPrompt(lib.custom_prompt)) =>
         ResolvedFromTable(LibPrompts(lib.provider), lib.analysis_type, lib.out.prompt[1])

\* C9 witness: a library call for claude with an unknown tag resolved the
\* 'detailed' template
C9_Witness ==
    /\ LibCalled
    /\ lib.provider = "claude"
    /\ lib.custom_prompt = <<>>
    /\ lib.analysis_type = "poem"
    /\ lib.out.prompt = <<CLAUDE_PROMPTS["detailed"]>>

\* the table lookup for a tag, with the fallback to 'detailed'
Lookup(table, tag) == IF tag \in BuiltinTags THEN table[tag] ELSE table["detailed"]

\* C10: a non-empty custom prompt is, for every analysis-type tag, exactly
\* the prompt resolved and sent to the provider; with the custom prompt
\* absent or empty the prompt is the table lookup for the tag, with the
\* 'detailed' fallback.
C10_CustomPrompt ==
    /\ (LibCalled /\ lib.out.prompt # <<>>) =>
         LET expected == IF NoCustomPrompt(lib.custom_prompt)
                         THEN Lookup(LibPrompts(lib.provider), lib.analysis_type)
                         ELSE lib.custom_prompt[1]
         IN  /\ lib.out.prompt = <<expected>>
             /\ \A i \in DOMAIN lib.out.calls : lib.out.calls[i].prompt = expected
    /\ \A w \in Workers :
         Dispatched(w) =>
           /\ req[w].prompt = Lookup(WEB_PROMPTS, req[w].atype)
           /\ \A i \in DOMAIN req[w].calls : req[w].calls[i].prompt = req[w].prompt

\* C10 witness: a custom prompt was sent to gemini although the tag given
\* with it is a built-in one
C10_Witness ==
    /\ LibCalled
    /\ lib.provider = "gemini"
    /\ lib.custom_prompt = <<"What breed is this cat?">>
    /\ lib.analysis_type = "story"
    /\ lib.out.calls # <<>>
    /\ lib.out.calls[1].prompt = "What breed is this cat?"

\* the extension of a path: the text after the last dot of its final
\* component, when that dot is neither its first nor its last character
ExtensionOf(path) ==
    LET name == IF \E i \in DOMAIN path : path[i] = "/"
                THEN SubSeq(path,
                            1 + CHOOSE i \in DOMAIN path :
                                    path[i] = "/" /\ \A j \in DOMAIN path : j > i => path[j] # "/",
                            Len(path))
                ELSE path
        dots == {i \in 2..(Len(name) - 1) :
                    name[i] = "." /\ \A j \in DOMAIN name : j > i => name[j] # "."}
    IN  IF dots = {} THEN <<>>
        ELSE SubSeq(name, 1 + CHOOSE i \in dots : TRUE, Len(name))

\* the documented table: extension (whatever its case) -> MIME type
DocumentedMediaType(ext) ==
    CASE Lower(ext) \in {<<"j","p","g">>, <<"j","p","e","g">>} -> "image/jpeg"
      [] Lower(ext) = <<"p","n","g">> -> "image/png"
      [] Lower(ext) = <<"g","i","f">> -> "image/gif"
      [] Lower(ext) = <<"w","e","b","p">> -> "image/webp"
      [] OTHER -> "image/jpeg"

\* C11: the media type sent with an image is the documented one for the
\* extension of its path (.jpg and .jpeg image/jpeg, .png image/png, .gif
\* image/gif, .webp image/webp, whatever the case; anything else and no
\* extension image/jpeg), in the library and in the web variant, whose inline
\* tables give what the library's get_media_type gives for the same path.
C11_MediaTypes ==
    /\ (LibCalled /\ lib.provider \in {"gpt4o", "claude"}) =>
         \A i \in DOMAIN lib.out.calls :
             /\ lib.out.calls[i].media_type = get_media_type(lib.image_path)
             /\ lib.out.calls[i].media_type =
                    DocumentedMediaType(ExtensionOf(lib.image_path))
    /\ \A w \in Workers :
         \A i \in DOMAIN req[w].calls :
             /\ req[w].calls[i].media_type = get_media_type(req[w].filepath)
             /\ req[w].calls[i].media_type =
                    DocumentedMediaType(ExtensionOf(req[w].filepath))

\* C11 witness: the library sent cat.PNG as image/png
C11_Witness ==
    /\ LibCalled
    /\ lib.provider = "claude"
    /\ lib.image_path = NameCatPNG
    /\ lib.out.calls # <<>>
    /\ lib.out.calls[1].media_type = "image/png"

\* the provider's credential is configured, its library can be imported
\* and its remote call was made and answered
WebSuccessCase(w) ==
    /\ Invoked(w)
    /\ req[w].invoked \in keys
    /\ req[w].invoked \in libs
    /\ req[w].remote.kind = "ok"

LibSuccessCase ==
    /\ LibCalled
    /\ lib.provider \in keys
    /\ lib.provider \in libs
    /\ lib.remote.kind = "ok"

\* C12: on the success path (credential configured, library
\* available, remote call answered) analyze makes exactly one remote call,
\* sends the prompt resolved for the requested analysis type together with
\* the image of that invocation, and returns Success carrying exactly the
\* text of the answer.
C12_SuccessPath ==
    /\ \A w \in Workers :
         WebSuccessCase(w) =>
           /\ Len(req[w].calls) = 1
           /\ req[w].calls[1].prompt = Lookup(WEB_PROMPTS, req[w].atype)
           /\ req[w].calls[1].data = b64encode(FileWith(Bytes(w)))
           /\ req[w].body = [success |-> TRUE, analysis |-> req[w].remote.text]
           /\ req[w].pc = "done" => req[w].status = 200
    /\ LibSuccessCase =>
         /\ Len(lib.out.calls) = 1
         /\ lib.out.calls[1].prompt =
                IF NoCustomPrompt(lib.custom_prompt)
                THEN Lookup(LibPrompts(lib.provider), lib.analysis_type)
                ELSE lib.custom_prompt[1]
         /\ lib.out.calls[1].data =
                IF lib.provider = "gemini" THEN [image |-> LibDisk[lib.image_path]]
                ELSE b64encode(LibDisk[lib.image_path])
         /\ lib.out.value = lib.remote.text

\* C12 witness: the scenario of the specification has completed: an upload
\* saved as uploads/cat.png, provider gpt4o, type story, answered with
\* 'A tale of a cat.', one call carrying the uploaded bytes, response 200
C12_Witness ==
    \E w \in Workers :
      /\ WebSuccessCase(w)
      /\ req[w].pc = "done"
      /\ req[w].filepath = upload_path(NameCatPng)
      /\ req[w].invoked = "gpt4o"
      /\ req[w].atype = "story"
      /\ Len(req[w].calls) = 1
      /\ req[w].calls[1].data = b64encode(FileWith(Bytes(w)))
      /\ req[w].body = [success |-> TRUE, analysis |-> <<"A tale of a cat.">>]
      /\ req[w].status = 200

\* the value a library method returns for the given inputs
LibOutcome(provider, image_path, custom_prompt, analysis_type, remote) ==
    IF provider = "gpt4o"
    THEN analyze_with_gpt4o(image_path, custom_prompt, analysis_type, remote)
    ELSE IF provider = "claude"
    THEN analyze_with_claude(image_path, custom_prompt, analysis_type, remote)
    ELSE analyze_with_gemini(image_path, custom_prompt, analysis_type, remote)

\* C13 as stated: every result is a tagged outcome a caller can branch on: a
\* web result never carries both 'success' and 'error' and a successful one
\* is not a Failure; a string returned by a successful library invocation
\* is not classified as a Failure and differs from the string any failing
\* invocation on the same arguments returns.
C13_Tagged ==
    /\ \A w \in Workers :
         /\ req[w].body # NoBody =>
               ~({"success", "error"} \subseteq DOMAIN req[w].body)
         /\ WebSuccessCase(w) => ~WebFailure(req[w].body)
    /\ LibSuccessCase =>
         /\ ~LibFailure(lib.out.value)
         /\ \A r \in RemoteOutcomes :
              r.kind # "ok" =>
                LibOutcome(lib.provider, lib.image_path, lib.custom_prompt,
                           lib.analysis_type, r).value # lib.out.value

\* the extension of an uploaded filename: what follows its last dot
UploadExtension(filename) ==
    IF LastDot(filename) = 0 THEN <<>>
    ELSE SubSeq(filename, LastDot(filename) + 1, Len(filename))

\* C14 as stated: for every accepted upload the media type sent to the
\* provider is the documented MIME type of the uploaded filename's extension,
\* the saved path keeping that extension.
C14_MediaTypeOfUpload ==
    \A w \in Workers :
      \A i \in DOMAIN req[w].calls :
          /\ Lower(ExtensionOf(req[w].filepath)) = Lower(UploadExtension(req[w].rawname))
          /\ req[w].calls[i].media_type =
                 DocumentedMediaType(UploadExtension(req[w].rawname))

\* the providers in the order compare_models is documented to try them
CompareOrder == <<"gpt4o", "claude", "gemini">>

\* is p among the configured providers
Configured(p) == p \in keys

\* C15: compare_models returns a dictionary whose keys are exactly the
\* providers whose credential is configured; each of them is invoked exactly
\* once, in the order gpt4o, claude, gemini, with the same image and analysis
\* type, and a provider that fails (library missing, remote error) gets its
\* failure as its entry while the later providers are still invoked.
C15_CompareModels ==
    cmp.called =>
      /\ DOMAIN cmp.results = keys
      /\ [i \in DOMAIN cmp.trace |-> cmp.trace[i].provider] =
             SelectSeq(CompareOrder, Configured)
      /\ \A i \in DOMAIN cmp.trace :
           /\ cmp.trace[i].image_path = cmp.image_path
           /\ cmp.trace[i].analysis_type = cmp.analysis_type
           /\ Len(cmp.trace[i].calls) <= 1
      /\ \A p \in keys :
           /\ cmp.results[p] =
                  LibOutcome(p, cmp.image_path, <<>>, cmp.analysis_type,
                             cmp.remotes[p]).value
           /\ (p \notin libs \/ cmp.remotes[p].kind # "ok") => LibFailure(cmp.results[p])

\* C15 witness: all three credentials configured, the openai library
\* missing and the Claude call answered with an error: three invocations,
\* two Failure entries and the Gemini answer
C15_Witness ==
    /\ cmp.called
    /\ keys = Providers
    /\ "gpt4o" \notin libs
    /\ cmp.remotes["claude"].kind = "error"
    /\ cmp.remotes["gemini"].kind = "ok"
    /\ Len(cmp.trace) = 3
    /\ LibFailure(cmp.results["gpt4o"])
    /\ LibFailure(cmp.results["claude"])
    /\ cmp.results["gemini"] = <<"A tale of a cat.">>

====
